---- MODULE Spec2Model ----
(***************************************************************************)
(* h5features: the index of an h5features group.                           *)
(*                                                                         *)
(* Write path: Index.write (h5features2/index.py, h5features/index.py)     *)
(* extends the cumulative index dataset of a group.                        *)
(* Read path: the index codecs (Index.read, IndexV1_0.read,                *)
(* LegacyIndex.read) load a snapshot, Reader.__init__ picks the codec      *)
(* and Reader.read resolves an item/time query on the snapshot.            *)
(*                                                                         *)
(* Spec      : a write session on an initially empty group.                *)
(* SpecRead  : a Reader constructed on a stored group, answering queries.  *)
(***************************************************************************)
EXTENDS Integers, Sequences, FiniteSets, TLC

\* Bounds of the model: the items of a group, the frames of an item of a
\* stored group, the items of one write, the frames of one written item and
\* the frames of a group.
MaxItems == 3
MaxFrames == 4
MaxNew == 2
MaxCount == 5
MaxTotal == 9

VARIABLES
    layout,     \* on-disk layout of the group: "Legacy", "V1" or "Current"
    format,     \* group.attrs['format']: "dense" or "sparse"
    items,      \* the stored item names, in insertion order
    index,      \* the stored cumulative index dataset (group[self.name])
    frame_count,\* history: the frame count of every item written so far
    continued,  \* history: some write was a continuation
    call,       \* the inputs of the last Index.write call
    prev,       \* the index dataset before the last Index.write call
    outcome,    \* how the last Index.write call ended
    reader,     \* the Reader object: legacy flag and index snapshot
    query,      \* the arguments of the last Reader.read call
    result      \* what the last Reader.read call returned or raised

vars == <<layout, format, items, index, frame_count, continued, call, prev,
          outcome, reader, query, result>>

----------------------------------------------------------------------------
(* Helpers: Python / numpy / h5py primitives used by the code.             *)

RECURSIVE SumTo(_, _)
\* c[1] + ... + c[k]
SumTo(c, k) == IF k = 0 THEN 0 ELSE SumTo(c, k - 1) + c[k]

\* np.cumsum(c)
Cumsum(c) == [k \in 1..Len(c) |-> SumTo(c, k)]

Min(a, b) == IF a < b THEN a ELSE b
Max(a, b) == IF a > b THEN a ELSE b

\* h5py Dataset.resize((size,)) on a 1-d dataset, size >= 0: the leading
\* values are kept, new slots hold the fill value 0.
Resize(ds, size) == [k \in 1..size |-> IF k <= Len(ds) THEN ds[k] ELSE 0]

\* The 0-based first offset selected by the Python slice [start:] on a
\* sequence of length n (slice.indices: a negative start counts from the end).
SliceStart(start, n) == IF start < 0 THEN Max(start + n, 0) ELSE Min(start, n)

\* h5py Dataset.__setitem__ for ds[start:] = vals. An empty selection returns
\* without writing; a source of the selection's length is written; a source of
\* length 1 is broadcast; any other source cannot be broadcast (TypeError).
SetSlice(ds, start, vals) ==
    LET s == SliceStart(start, Len(ds))
        count == Len(ds) - s
    IN  IF count = 0 THEN [ok |-> TRUE, ds |-> ds]
        ELSE IF Len(vals) = count
             THEN [ok |-> TRUE,
                   ds |-> [k \in 1..Len(ds) |-> IF k <= s THEN ds[k] ELSE vals[k - s]]]
        ELSE IF Len(vals) = 1
             THEN [ok |-> TRUE,
                   ds |-> [k \in 1..Len(ds) |-> IF k <= s THEN ds[k] ELSE vals[1]]]
        ELSE [ok |-> FALSE, ds |-> ds]

----------------------------------------------------------------------------
(* Index.write                                                             *)

\* Index.write taking 0, not -1, for the last index of an empty group.
IndexWrite_LastZero(idx, nitm, cont, c) ==
    IF nitm > 0 /\ Len(idx) = 0
    THEN [index |-> idx, outcome |-> "error_last_index"]
    ELSE
    LET last_index == IF nitm > 0 THEN idx[Len(idx)] ELSE 0
        new == [k \in 1..Len(c) |-> last_index + Cumsum(c)[k]]
        nidx == IF cont THEN Len(idx) - 1 ELSE Len(idx)
        size == nidx + Len(new)
    IN  IF size < 0
        THEN [index |-> idx, outcome |-> "error_resize"]
        ELSE LET w == SetSlice(Resize(idx, size), nidx, new)
             IN  [index |-> w.ds,
                  outcome |-> IF w.ok THEN "ok" ELSE "error_assign"]

\* Index.write appending a slot for the first item of a continuation too.
IndexWrite_NoOverwrite(idx, nitm, cont, c) ==
    IF nitm > 0 /\ Len(idx) = 0
    THEN [index |-> idx, outcome |-> "error_last_index"]
    ELSE
    LET last_index == IF nitm > 0 THEN idx[Len(idx)] ELSE -1
        new == [k \in 1..Len(c) |-> last_index + Cumsum(c)[k]]
        nidx == Len(idx)
        size == nidx + Len(new)
    IN  IF size < 0
        THEN [index |-> idx, outcome |-> "error_resize"]
        ELSE LET w == SetSlice(Resize(idx, size), nidx, new)
             IN  [index |-> w.ds,
                  outcome |-> IF w.ok THEN "ok" ELSE "error_assign"]

\* Index.write(group, items, features): idx is group[self.name], nitm is
\* group[items.name].shape[0], cont is items.continue_last_item(group) and c
\* is [x.shape[0] for x in features.data]. Returns the dataset as the call
\* leaves it and the statement the call ended at ("ok": a normal return).
IndexWrite(idx, nitm, cont, c) ==
    IF nitm > 0 /\ Len(idx) = 0
    THEN [index |-> idx, outcome |-> "error_last_index"]
    ELSE
    LET last_index == IF nitm > 0 THEN idx[Len(idx)] ELSE -1
        new == [k \in 1..Len(c) |-> last_index + Cumsum(c)[k]]
        nidx == IF cont THEN Len(idx) - 1 ELSE Len(idx)
        size == nidx + Len(new)
    IN  IF size < 0
        THEN [index |-> idx, outcome |-> "error_resize"]
        ELSE LET w == SetSlice(Resize(idx, size), nidx, new)
             IN  [index |-> w.ds,
                  outcome |-> IF w.ok THEN "ok" ELSE "error_assign"]

----------------------------------------------------------------------------
(* Item names. A name is the sequence of the code points of its characters *)
(* (47 is '/', 45 is '-', 92 is '\').                                       *)

\* The name written for the k-th item: "a", "/b", "c", "d", ...
Name(k) == IF k = 2 THEN <<47, 98>> ELSE <<96 + k>>

\* A name that is never stored.
Absent == <<122>>

\* from_item=None / to_item=None, and from_time=None / to_time=None.
None == <<>>
NoTime == -1

\* Items.write as the index expects it: a continuation write does not store
\* the name of its first item again, every other new item gets a new name.
ItemsWrite(its, cont, n) ==
    LET fresh == IF cont /\ n > 0 THEN n - 1 ELSE n
    IN  its \o [k \in 1..fresh |-> Name(Len(its) + k)]

\* The frame counts per item after a write: a continuation adds the frames
\* of its first item to the last stored item.
CountsWrite(fc, cont, c) ==
    IF cont /\ Len(c) > 0
    THEN [k \in 1..Len(fc) |-> IF k = Len(fc) THEN fc[k] + c[1] ELSE fc[k]]
         \o Tail(c)
    ELSE fc \o c

\* The Reader of a session that only writes.
NoReader == [ok |-> FALSE, legacy |-> FALSE, index |-> [format |-> "none"],
             kind |-> "none", site |-> 0]

NoCall == [cont |-> FALSE, counts |-> <<>>]
NoQuery == [from_item |-> None, to_item |-> None,
            from_time |-> NoTime, to_time |-> NoTime]
NoResult == [kind |-> "none", site |-> 0, items |-> <<>>, times |-> <<>>,
             features |-> <<>>, file_ends |-> <<>>]

----------------------------------------------------------------------------
(* The write session.                                                      *)

Init ==
    /\ layout = "Current"
    /\ format = "dense"
    /\ items = <<>>
    /\ index = <<>>
    /\ frame_count = <<>>
    /\ continued = FALSE
    /\ call = NoCall
    /\ prev = <<>>
    /\ outcome = "none"
    /\ reader = NoReader
    /\ query = NoQuery
    /\ result = NoResult

\* One write to the group: Index.write, then (when it returned) the items.
\* An exception ends the session: the group is left as the failing
\* statement found it.
Write(cont, c) ==
    /\ outcome \in {"none", "ok"}
    /\ Len(index) + Len(c) <= MaxItems
    /\ Len(items) + Len(c) <= MaxItems
    /\ SumTo(frame_count, Len(frame_count)) + SumTo(c, Len(c)) <= MaxTotal
    /\ LET w == IndexWrite(index, Len(items), cont, c)
       IN  /\ index' = w.index
           /\ outcome' = w.outcome
           /\ items' = IF w.outcome = "ok"
                       THEN ItemsWrite(items, cont, Len(c)) ELSE items
           /\ frame_count' = IF w.outcome = "ok"
                             THEN CountsWrite(frame_count, cont, c)
                             ELSE frame_count
    /\ prev' = index
    /\ call' = [cont |-> cont, counts |-> c]
    /\ continued' = (continued \/ cont)
    /\ UNCHANGED <<layout, format, reader, query, result>>

Next ==
    \E cont \in BOOLEAN, n \in 0..MaxNew :
        \E c \in [1..n -> 0..MaxCount] : Write(cont, c)

Spec == Init /\ [][Next]_vars

----------------------------------------------------------------------------
(* The stored group.                                                       *)

Layouts == {"Legacy", "V1", "Current"}
Formats == {"dense", "sparse"}

RECURSIVE TimesOf(_)
\* The times dataset: one time per frame, in units of half a second; the
\* frames of every item are stamped 1.0, 2.0, 3.0, ... seconds.
TimesOf(fc) ==
    IF fc = <<>> THEN <<>>
    ELSE TimesOf(SubSeq(fc, 1, Len(fc) - 1)) \o [j \in 1..fc[Len(fc)] |-> 2 * j]

RECURSIVE Escape(_)
\* The Legacy writer's escape of a name: '/' becomes '/-'.
Escape(name) ==
    IF name = <<>> THEN <<>>
    ELSE (IF Head(name) = 47 THEN <<47, 45>> ELSE <<Head(name)>>)
         \o Escape(Tail(name))

RECURSIVE Pack(_)
\* The Legacy 'files' dataset: the escaped names joined by '/\'.
Pack(names) ==
    IF names = <<>> THEN <<>>
    ELSE IF Len(names) = 1 THEN Escape(names[1])
    ELSE Escape(names[1]) \o <<47, 92>> \o Pack(Tail(names))

\* The datasets and attributes of a group holding the items its, the
\* cumulative index idx and the times tms, in the layout lay. Row r of the
\* features dataset is frame r.
Group(lay, fmt, its, idx, tms) ==
    LET common == ("times" :> tms) @@ ("features" :> [r \in 1..Len(tms) |-> r - 1])
        named == IF lay = "Current"
                 THEN ("items" :> its) @@ ("index" :> idx)
                 ELSE IF lay = "V1"
                 THEN ("files" :> its) @@ ("file_index" :> idx)
                 ELSE ("files" :> Pack(its)) @@ ("index" :> idx)
        side == IF lay = "Legacy" THEN "lines" ELSE "frames"
        fmtattr == "format" :> fmt
        marked == IF lay = "Legacy" THEN fmtattr
                  ELSE fmtattr @@ ("version" :> (IF lay = "V1" THEN "1.0" ELSE "1.1"))
    IN  [data |-> IF fmt = "sparse"
                  THEN common @@ named @@ (side :> [r \in 1..Len(tms) |-> 1])
                  ELSE common @@ named,
         attrs |-> IF fmt = "sparse" THEN marked @@ ("dim" :> 1) ELSE marked]

----------------------------------------------------------------------------
(* The index codecs.                                                       *)

CodecOk(snapshot) == [ok |-> TRUE, index |-> snapshot, kind |-> "ok", site |-> 0]
CodecError(kind, site) ==
    [ok |-> FALSE, index |-> [format |-> "none"], kind |-> kind, site |-> site]

\* Index.read (the Current layout).
IndexRead(group) ==
    IF "items" \notin DOMAIN group.data THEN CodecError("KeyError", 41)
    ELSE IF "index" \notin DOMAIN group.data THEN CodecError("KeyError", 43)
    ELSE IF "times" \notin DOMAIN group.data THEN CodecError("KeyError", 44)
    ELSE IF "format" \notin DOMAIN group.attrs THEN CodecError("KeyError", 45)
    ELSE IF group.attrs["format"] = "sparse" THEN CodecError("NameError", 49)
    ELSE CodecOk([items |-> group.data["items"],
                  index |-> group.data["index"],
                  times |-> group.data["times"],
                  format |-> group.attrs["format"]])

\* IndexV1_0.read (the V1 layout).
IndexV1_0Read(group) ==
    IF "files" \notin DOMAIN group.data THEN CodecError("KeyError", 86)
    ELSE IF "file_index" \notin DOMAIN group.data THEN CodecError("KeyError", 88)
    ELSE IF "times" \notin DOMAIN group.data THEN CodecError("KeyError", 89)
    ELSE IF "format" \notin DOMAIN group.attrs THEN CodecError("KeyError", 90)
    ELSE IF group.attrs["format"] = "sparse" THEN CodecError("NameError", 94)
    ELSE CodecOk([items |-> group.data["files"],
                  index |-> group.data["file_index"],
                  times |-> group.data["times"],
                  format |-> group.attrs["format"]])

RECURSIVE Replace(_)
\* str.replace('/-', '/')
Replace(s) ==
    IF s = <<>> THEN <<>>
    ELSE IF Len(s) >= 2 /\ s[1] = 47 /\ s[2] = 45
         THEN <<47>> \o Replace(SubSeq(s, 3, Len(s)))
    ELSE <<s[1]>> \o Replace(Tail(s))

RECURSIVE Split(_, _)
\* str.split('/\\'): cur is the piece being read.
Split(s, cur) ==
    IF s = <<>> THEN <<cur>>
    ELSE IF Len(s) >= 2 /\ s[1] = 47 /\ s[2] = 92
         THEN <<cur>> \o Split(SubSeq(s, 3, Len(s)), <<>>)
    ELSE Split(Tail(s), Append(cur, s[1]))

\* LegacyIndex.read / IndexV0_1.read (the Legacy layout).
LegacyIndexRead(group) ==
    IF "files" \notin DOMAIN group.data THEN CodecError("KeyError", 57)
    ELSE IF "index" \notin DOMAIN group.data THEN CodecError("KeyError", 60)
    ELSE IF "times" \notin DOMAIN group.data THEN CodecError("KeyError", 61)
    ELSE IF "format" \notin DOMAIN group.attrs THEN CodecError("KeyError", 61)
    ELSE LET files == Split(Replace(group.data["files"]), <<>>)
             snapshot == [files |-> files,
                          index |-> group.data["index"],
                          times |-> group.data["times"],
                          format |-> group.attrs["format"]]
         IN  IF group.attrs["format"] # "sparse" THEN CodecOk(snapshot)
             ELSE IF "dim" \notin DOMAIN group.attrs THEN CodecError("KeyError", 63)
             ELSE IF "lines" \notin DOMAIN group.data THEN CodecError("KeyError", 64)
             ELSE CodecOk(snapshot @@ ("dim" :> group.attrs["dim"])
                                   @@ ("frames" :> group.data["lines"]))

\* init_index(version): the codec class of a file version.
InitIndex(version) ==
    IF version = "0.1" THEN "IndexV0_1"
    ELSE IF version = "1.0" THEN "IndexV1_0"
    ELSE "Index"

\* The read of the codec init_index selects for the layout's version.
CodecRead(lay, group) ==
    LET version == IF lay = "Legacy" THEN "0.1" ELSE IF lay = "V1" THEN "1.0" ELSE "1.1"
        codec == InitIndex(version)
    IN  IF codec = "IndexV0_1" THEN LegacyIndexRead(group)
        ELSE IF codec = "IndexV1_0" THEN IndexV1_0Read(group)
        ELSE IndexRead(group)

----------------------------------------------------------------------------
(* Reader                                                                  *)

\* Reader.__init__ with index=None: the group has no 'version' attribute
\* exactly when it is legacy; the index is read by LegacyIndex or by Index.
ReaderInit(group) ==
    LET legacy == "version" \notin DOMAIN group.attrs
        r == IF legacy THEN LegacyIndexRead(group) ELSE IndexRead(group)
    IN  [ok |-> r.ok, legacy |-> legacy, index |-> r.index,
         kind |-> r.kind, site |-> r.site]

Raise(kind, site) == [NoResult EXCEPT !.kind = kind, !.site = site]

InList(list, element) == \E p \in 1..Len(list) : list[p] = element

\* list.index(element): the 0-based first position of an element of the list.
ListIndex(list, element) ==
    (CHOOSE p \in 1..Len(list) :
        list[p] = element /\ \A q \in 1..(p - 1) : list[q] # element) - 1

\* A Python slice bound on a sequence of length n.
Norm(x, n) == IF x < 0 THEN Max(x + n, 0) ELSE Min(x, n)

\* seq[a:b]
PySlice(seq, a, b) == SubSeq(seq, Norm(a, Len(seq)) + 1, Norm(b, Len(seq)))

\* np.split(arr, points): the pieces arr[0:points[0]], arr[points[0]:points[1]],
\* ..., arr[points[-1]:].
NpSplit(arr, points) ==
    [k \in 1..(Len(points) + 1) |->
        PySlice(arr,
                IF k = 1 THEN 0 ELSE points[k - 1],
                IF k = Len(points) + 1 THEN Len(arr) ELSE points[k])]

\* arr[name] with a string on a numpy array of integers: numpy raises
\* IndexError, an integer array has no fields.
ArrayField(arr, name) == [ok |-> FALSE, value |-> <<>>]

\* np.where(times >= from_time)[0] and np.where(times <= to_time)[0]
WhereGE(times, t) == {p \in 0..(Len(times) - 1) : times[p + 1] >= t}
WhereLE(times, t) == {p \in 0..(Len(times) - 1) : times[p + 1] <= t}
SetMin(S) == CHOOSE x \in S : \A y \in S : x <= y
SetMax(S) == CHOOSE x \in S : \A y \in S : x >= y

\* The order check refusing a range of one item too.
Located_Strict(item1, item2) == item2 > item1

\* The order check on the resolved positions ("not item2 >= item1" raises).
Located(item1, item2) == item2 >= item1

\* file_ends left as offsets in the store, not re-based on item1_start.
FileEnds_Absolute(index_group, item1, item2, item1_start) ==
    PySlice(index_group, item1, item2)

\* file_ends = index_group[item1:item2] - item1_start
FileEnds(index_group, item1, item2, item1_start) ==
    LET ends == PySlice(index_group, item1, item2)
    IN  [k \in 1..Len(ends) |-> ends[k] - item1_start]

\* Reader.read, from the resolved items on: item1 <= item2 are positions in
\* the index.
ReadRange(rd, group, items_group, item1, item2, from_time, to_time) ==
    LET index_group == rd.index.index
        n == Len(index_group)
    IN
    IF item1 >= 1 /\ item1 - 1 >= n THEN Raise("IndexError", 104)
    ELSE IF item2 >= 1 /\ item2 - 1 >= n THEN Raise("IndexError", 105)
    ELSE IF item1 >= n THEN Raise("IndexError", 106)
    ELSE IF item2 >= n THEN Raise("IndexError", 107)
    ELSE
    LET item1_start == IF item1 = 0 THEN 0 ELSE index_group[item1] + 1
        item2_start == IF item2 = 0 THEN 0 ELSE index_group[item2] + 1
        item1_end == index_group[item1 + 1]
        item2_end == index_group[item2 + 1]
        tf == ArrayField(index_group, "times")
        times1 == PySlice(tf.value, item1_start, item1_end + 1)
        times2 == PySlice(tf.value, item2_start, item2_end + 1)
    IN
    IF from_time # NoTime /\ ~tf.ok THEN Raise("IndexError", 113)
    ELSE IF from_time # NoTime /\ WhereGE(times1, from_time) = {}
         THEN Raise("IOError", 118)
    ELSE IF to_time # NoTime /\ ~tf.ok THEN Raise("IndexError", 125)
    ELSE IF to_time # NoTime /\ WhereLE(times2, to_time) = {}
         THEN Raise("Exception", 130)
    ELSE
    LET i1 == IF from_time = NoTime THEN item1_start
              ELSE item1_start + SetMin(WhereGE(times1, from_time))
        i2 == IF to_time = NoTime THEN item2_end
              ELSE item2_start + SetMax(WhereLE(times2, to_time))
    IN
    IF "features" \notin DOMAIN group.data THEN Raise("KeyError", 134)
    ELSE IF rd.index.format # "dense" THEN Raise("IOError", 143)
    ELSE
    \* features_group[:, i1:i2 + 1].T (legacy) and features_group[i1:i2 + 1, :]
    \* both are the frames i1..i2, one per row.
    LET features == PySlice(group.data["features"], i1, i2 + 1)
        times == PySlice(group.data["times"], i1, i2 + 1)
        file_ends == FileEnds(index_group, item1, item2, item1_start)
        points == [k \in 1..Len(file_ends) |-> file_ends[k] + 1]
    IN  [kind |-> "ok", site |-> 156,
         items |-> PySlice(items_group, item1, item2 + 1),
         times |-> IF item2 > item1 THEN NpSplit(times, points) ELSE <<times>>,
         features |-> IF item2 > item1 THEN NpSplit(features, points) ELSE <<features>>,
         file_ends |-> file_ends]

\* Reader.read(from_item, to_item, from_time, to_time)
ReaderRead(rd, group, from_item0, to_item0, from_time, to_time) ==
    IF "items" \notin DOMAIN rd.index THEN Raise("KeyError", 90)
    ELSE
    LET items_group == rd.index.items
    IN
    IF to_item0 = None /\ from_item0 = None /\ items_group = <<>>
    THEN Raise("IndexError", 92)
    ELSE IF from_item0 = None /\ items_group = <<>>
    THEN Raise("IndexError", 94)
    ELSE
    LET to_item == IF to_item0 # None THEN to_item0
                   ELSE IF from_item0 = None THEN items_group[Len(items_group)]
                   ELSE from_item0
        from_item == IF from_item0 = None THEN items_group[1] ELSE from_item0
    IN
    IF ~InList(items_group, from_item) THEN Raise("IOError", 164)
    ELSE IF ~InList(items_group, to_item) THEN Raise("IOError", 164)
    ELSE
    LET item1 == ListIndex(items_group, from_item)
        item2 == ListIndex(items_group, to_item)
    IN  IF ~Located(item1, item2) THEN Raise("IOError", 99)
        ELSE ReadRange(rd, group, items_group, item1, item2, from_time, to_time)

----------------------------------------------------------------------------
(* The read session: a Reader on a stored group.                           *)

\* The group the Reader was opened on.
TheGroup == Group(layout, format, items, index, TimesOf(frame_count))

\* The names asked for, and the (from_time, to_time) pairs, in half seconds:
\* 2.0, 3.5, 10.0 and 0.5 seconds.
QueryFrom == {None, Name(1), Name(2), Name(3), Absent}
QueryTo == {None, Name(1), Name(2), Name(3)}
QueryTimes == {<<NoTime, NoTime>>, <<4, NoTime>>, <<20, NoTime>>,
               <<NoTime, 7>>, <<NoTime, 1>>, <<4, 7>>}

\* A stored group of up to MaxItems items of up to MaxFrames frames, as one
\* write into an empty group leaves it; in a group of three or more items
\* the third item may bear the name of the first.
InitRead ==
    /\ layout \in Layouts
    /\ format \in Formats
    /\ \E n \in 0..MaxItems, dup \in BOOLEAN :
         \E c \in [1..n -> 0..MaxFrames] :
            /\ SumTo(c, n) <= MaxTotal
            /\ frame_count = c
            /\ call = [cont |-> FALSE, counts |-> c]
            /\ items = [k \in 1..n |-> IF dup /\ k = 3 THEN Name(1) ELSE Name(k)]
            /\ index = IndexWrite(<<>>, 0, FALSE, c).index
    /\ continued = FALSE
    /\ prev = <<>>
    /\ outcome = "ok"
    /\ reader = ReaderInit(TheGroup)
    /\ query = NoQuery
    /\ result = NoResult

\* One call of Reader.read. The call changes neither the Reader nor the
\* group, so a session of one call covers every call of a longer session.
Read(from_item, to_item, from_time, to_time) ==
    /\ reader.ok
    /\ result = NoResult
    /\ query' = [from_item |-> from_item, to_item |-> to_item,
                 from_time |-> from_time, to_time |-> to_time]
    /\ result' = ReaderRead(reader, TheGroup, from_item, to_item, from_time, to_time)
    /\ UNCHANGED <<layout, format, items, index, frame_count, continued, call,
                   prev, outcome, reader>>

NextRead ==
    \E from_item \in QueryFrom, to_item \in QueryTo, t \in QueryTimes :
        Read(from_item, to_item, t[1], t[2])

SpecRead == InitRead /\ [][NextRead]_vars

----------------------------------------------------------------------------
(* Claims on Index.write, checked under Spec.                              *)

Positive(fc) == \A k \in 1..Len(fc) : fc[k] > 0

StrictlyIncreasing(idx) == \A i \in 2..Len(idx) : idx[i] > idx[i - 1]

\* The writes so far: none was a continuation, every item has frames.
PlainWrites == ~continued /\ Positive(frame_count)

\* C1 (as stated): after non-continuation writes of items with strictly
\* positive frame counts into an empty index, the index is strictly
\* increasing, its first value is frame_count[0] - 1 and every later value
\* satisfies index[i] - index[i-1] - 1 = frame_count[i].
C1_AsStated ==
    PlainWrites =>
        /\ Len(index) = Len(frame_count)
        /\ StrictlyIncreasing(index)
        /\ Len(index) >= 1 => index[1] = frame_count[1] - 1
        /\ \A i \in 2..Len(index) : index[i] - index[i - 1] - 1 = frame_count[i]

\* C1 (amended): as above, with index[i] - index[i-1] = frame_count[i]:
\* consecutive end offsets differ by exactly the frame count of the item.
C1_CumulativeIndex ==
    PlainWrites =>
        /\ Len(index) = Len(frame_count)
        /\ StrictlyIncreasing(index)
        /\ Len(index) >= 1 => index[1] = frame_count[1] - 1
        /\ \A i \in 2..Len(index) : index[i] - index[i - 1] = frame_count[i]

\* Two plain writes, of items with 4 and then 3 and 1 frames.
C1_Witness ==
    /\ PlainWrites
    /\ outcome = "ok"
    /\ prev = <<3>>
    /\ frame_count = <<4, 3, 1>>

\* C2: a continuation write of n >= 1 items onto a non-empty index of length
\* L returns normally, leaves L + n - 1 slots, keeps the slots before L - 1,
\* overwrites slot L - 1 with last + c[0] and sets slot L - 1 + k to
\* last + c[0] + ... + c[k].
C2_Continuation ==
    (call.cont /\ Len(call.counts) >= 1 /\ Len(prev) >= 1) =>
        LET L == Len(prev)
            n == Len(call.counts)
        IN  /\ outcome = "ok"
            /\ Len(index) = L + n - 1
            /\ \A k \in 1..(L - 1) : index[k] = prev[k]
            /\ \A k \in 0..(n - 1) :
                   index[L + k] = prev[L] + SumTo(call.counts, k + 1)

\* Item A written with 5 frames, then continued with 3 more frames: one
\* slot, holding 7.
C2_Witness ==
    /\ call.cont
    /\ call.counts = <<3>>
    /\ prev = <<4>>
    /\ index = <<7>>
    /\ outcome = "ok"

\* C3: a continuation write onto an empty index ends in an error, never in
\* a normal return.
C3_EmptyContinuationFails ==
    (call.cont /\ prev = <<>> /\ outcome # "none") => outcome # "ok"

\* C4: no write shortens the index, and no write changes a stored slot
\* other than the last stored slot in a continuation write.
C4_AppendOnly ==
    /\ Len(index) >= Len(prev)
    /\ \A k \in 1..Len(prev) :
           (k < Len(prev) \/ ~call.cont) => index[k] = prev[k]

----------------------------------------------------------------------------
(* Claims on the codecs and on Reader.read, checked under SpecRead.        *)

\* position_of: the first rank (0-based) of a stored name.
Stored(name) == \E p \in 1..Len(items) : items[p] = name
PositionOf(name) == SetMin({p \in 0..(Len(items) - 1) : items[p + 1] = name})

\* frame_range_of: the inclusive frame range of the item at a position.
FrameStart(p) == IF p = 0 THEN 0 ELSE index[p] + 1
FrameEnd(p) == index[p + 1]

\* The names a query stands for, after defaulting.
AskedFrom == IF query.from_item = None THEN items[1] ELSE query.from_item
AskedTo ==
    IF query.to_item # None THEN query.to_item
    ELSE IF query.from_item = None THEN items[Len(items)]
    ELSE query.from_item

\* A read was made and both of its names are in the item list of the
\* Reader's index.
Resolved ==
    /\ result.kind # "none"
    /\ "items" \in DOMAIN reader.index
    /\ items # <<>>
    /\ Stored(AskedFrom)
    /\ Stored(AskedTo)

Untimed == query.from_time = NoTime /\ query.to_time = NoTime

\* The frames first, first + 1, ..., last.
Frames(first, last) == [k \in 1..(last - first + 1) |-> first + k - 1]

RECURSIVE Concat(_)
Concat(pieces) ==
    IF pieces = <<>> THEN <<>>
    ELSE Concat(SubSeq(pieces, 1, Len(pieces) - 1)) \o pieces[Len(pieces)]

\* C5: the codec of a Legacy store returns a snapshot with the fields of the
\* Current codec's snapshot, and a read on the Legacy store gives what the
\* same read gives on a Current store of the same items, index, times and
\* format.
C5_LayoutIndependent ==
    LET current == Group("Current", format, items, index, TimesOf(frame_count))
        expected == ReaderRead(ReaderInit(current), current, query.from_item,
                               query.to_item, query.from_time, query.to_time)
    IN  (/\ result.kind # "none"
         /\ layout = "Legacy"
         /\ Positive(frame_count)
         /\ ReaderInit(current).ok
         /\ expected.kind = "ok") =>
            /\ CodecRead(layout, TheGroup).ok
            /\ DOMAIN CodecRead(layout, TheGroup).index
                   = DOMAIN CodecRead("Current", current).index
            /\ result = expected

\* The offsets a time-bounded query must resolve to: the first frame of
\* from_item not before from_time, the last frame of to_item not after
\* to_time.
LowerBound ==
    LET s1 == FrameStart(PositionOf(AskedFrom))
        e1 == FrameEnd(PositionOf(AskedFrom))
    IN  IF query.from_time = NoTime THEN s1
        ELSE SetMin({r \in s1..e1 : TimesOf(frame_count)[r + 1] >= query.from_time})
UpperBound ==
    LET s2 == FrameStart(PositionOf(AskedTo))
        e2 == FrameEnd(PositionOf(AskedTo))
    IN  IF query.to_time = NoTime THEN e2
        ELSE SetMax({r \in s2..e2 : TimesOf(frame_count)[r + 1] <= query.to_time})
FromTimeMet ==
    \/ query.from_time = NoTime
    \/ \E r \in FrameStart(PositionOf(AskedFrom))..FrameEnd(PositionOf(AskedFrom)) :
           TimesOf(frame_count)[r + 1] >= query.from_time
ToTimeMet ==
    \/ query.to_time = NoTime
    \/ \E r \in FrameStart(PositionOf(AskedTo))..FrameEnd(PositionOf(AskedTo)) :
           TimesOf(frame_count)[r + 1] <= query.to_time

\* C6: on a store whose items all have frames, a query with a time bound
\* that some frame of the boundary item meets returns the frames from the first offset of from_item whose time is
\* >= from_time to the last offset of to_item whose time is <= to_time.
C6_TimeBoundsInclusive ==
    (/\ Resolved
     /\ Positive(frame_count)
     /\ PositionOf(AskedTo) >= PositionOf(AskedFrom)
     /\ ~Untimed
     /\ FromTimeMet
     /\ ToTimeMet) =>
        /\ result.kind = "ok"
        /\ Concat(result.features) = Frames(LowerBound, UpperBound)

\* The error Reader.read raises for a range it cannot resolve (an inverted
\* item range, line 99).
IsRangeError(r) == r.kind = "IOError" /\ r.features = <<>>

\* C8: on a store whose items all have frames, a from_time after every time
\* of from_item (raised at line 118) and a to_time before every time of
\* to_item (raised at line 130) each end the read in the same range error.
C8_TimeOutOfRange ==
    (/\ Resolved
     /\ Positive(frame_count)
     /\ PositionOf(AskedTo) >= PositionOf(AskedFrom)
     /\ ~Untimed) =>
        /\ ~FromTimeMet => IsRangeError(result) /\ result.site = 118
        /\ (FromTimeMet /\ ~ToTimeMet) => IsRangeError(result) /\ result.site = 130

\* C9: a read whose names are both in the index ends in the range error of
\* line 99 when to_item is first found before from_item, and does not end
\* there otherwise.
C9_RangeInversion ==
    Resolved =>
        IF PositionOf(AskedTo) < PositionOf(AskedFrom)
        THEN IsRangeError(result) /\ result.site = 99
        ELSE result.site # 99

\* from_item "c" and to_item "a" in a store of a, /b, c.
C9_Witness ==
    /\ Resolved
    /\ items = <<Name(1), Name(2), Name(3)>>
    /\ query.from_item = Name(3)
    /\ query.to_item = Name(1)
    /\ IsRangeError(result)
    /\ result.site = 99

\* C7: a read without time bounds over the positions p1 < p2 returns the
\* frames s1..e2, split in p2 - p1 + 1 pieces at the p2 - p1 boundaries
\* index[p1 + k] - s1, the k-th piece being the frames (and times) of the
\* item at p1 + k.
C7_MultiItemSplit ==
    (/\ Resolved
     /\ Untimed
     /\ PositionOf(AskedFrom) < PositionOf(AskedTo)) =>
        LET p1 == PositionOf(AskedFrom)
            p2 == PositionOf(AskedTo)
            s1 == FrameStart(p1)
            e2 == FrameEnd(p2)
        IN  /\ result.kind = "ok"
            /\ Concat(result.features) = Frames(s1, e2)
            /\ Len(Concat(result.times)) = e2 - s1 + 1
            /\ Len(result.file_ends) = p2 - p1
            /\ \A k \in 0..(p2 - p1 - 1) :
                   result.file_ends[k + 1] = index[p1 + k + 1] - s1
            /\ Len(result.features) = p2 - p1 + 1
            /\ Len(result.times) = p2 - p1 + 1
            /\ \A k \in 0..(p2 - p1) :
                   /\ result.features[k + 1] = Frames(FrameStart(p1 + k), FrameEnd(p1 + k))
                   /\ Len(result.features[k + 1]) = frame_count[p1 + k + 1]
                   /\ Len(result.times[k + 1]) = frame_count[p1 + k + 1]

\* Three items of 4, 3 and 2 frames, read whole: 9 frames, boundaries 3 and 6.
C7_Witness ==
    /\ Resolved
    /\ Untimed
    /\ frame_count = <<4, 3, 2>>
    /\ PositionOf(AskedFrom) = 0
    /\ PositionOf(AskedTo) = 2
    /\ result.kind = "ok"
    /\ Len(Concat(result.features)) = 9
    /\ result.file_ends = <<3, 6>>

\* No read with a time bound returns: each ends at line 113 or line 125, or
\* before its items are resolved.
TimedReadsRaise ==
    (result.kind # "none" /\ ~Untimed) => result.kind # "ok"

====
